---- MODULE Spec2Model ----
(***************************************************************************)
(* Model of the tide-torah service: the two calculator singletons          *)
(* (app/utils/hebrew_date.py, app/utils/astronomy.py) with their TTL       *)
(* caches, the torah route handlers that parse a date and call them        *)
(* (app/api/v1/endpoints/torah.py) and the loading of the torah endpoint   *)
(* module followed by its inclusion in api_router (app/api/v1/api.py).     *)
(*                                                                         *)
(* Third-party calls whose code is not part of the repository (ephem,      *)
(* astral, hebrewcal, requests) are inputs of the call: each either        *)
(* returns or raises.  The standard library (datetime) and                 *)
(* cachetools.TTLCache are modelled by what they do.                       *)
(*                                                                         *)
(* Specifications:                                                         *)
(*   Spec         module loading, the calculators, the torah date handlers *)
(*   SpecPure     the helpers of the calculators, one application each     *)
(*   SpecPrayer   endpoints/prayer.py and _calculate_prayer_times          *)
(*   SpecSefaria  utils/sefaria.py                                         *)
(*   SpecConc     calls of the calculators that overlap                    *)
(*   SpecCaller   get_astronomical_data and a caller that modifies what    *)
(*                it was given                                             *)
(***************************************************************************)
EXTENDS Integers, Sequences, FiniteSets, TLC

VARIABLES
    pc,         \* position in the module body of endpoints/torah.py (1-based statement index)
    router,     \* what the module-level name `router` of endpoints/torah.py is bound to (0: unbound)
    routes,     \* routes[r]: the set of <<path, handler>> registered on APIRouter object r
    apiRoutes,  \* the routes of api_router: <<prefix, path, handler>>
    included,   \* api.py has executed include_router(torah.router, ...)
    tz,         \* hours to add to the process's local time to get Asia/Jerusalem time
    now,        \* the clock (time.monotonic / datetime.now), in ticks
    hcache,     \* hebrew_date_calculator.cache, in least-recently-used order
    acache,     \* astronomy_calculator.cache, in least-recently-used order
    ret,        \* the last call: its operation, its arguments and what it returned
    pure,       \* the last application of a pure helper (specification SpecPure)
    sefaria,    \* sefaria_api: its two caches, its last call and the requests that call sent
    threads     \* the concurrent calls of get_astronomical_data (specification SpecConc)

vars == <<pc, router, routes, apiRoutes, included, tz, now, hcache, acache, ret, pure,
          sefaria, threads>>

----------------------------------------------------------------------------
(* Bounds and configuration *)

\* CACHE_MAX_SIZE: the maxsize both calculators give their TTLCache
MaxSize == 2
\* CACHE_TTL: the ttl both calculators give their TTLCache, in ticks
TTL == 1
\* the clock stops advancing here: one tick after an entry stored at 0 expires
MaxClock == TTL + 1

\* local time -> Asia/Jerusalem shifts of the hosts considered: a host east
\* of Israel (-6) and a UTC host (+3)
Shifts == {-6, 3}

\* date strings are <<year, month, day>>: the three fields of YYYY-MM-DD
WellFormed == {<<2024, 4, 15>>, <<2024, 6, 2>>, <<2024, 6, 3>>}
Malformed == {<<2024, 13, 40>>, <<2024, 2, 30>>}
DateStrings == WellFormed \cup Malformed
\* the (date, <<latitude, longitude>>) pairs given to the astronomy calculator;
\* <<31, 35>> stands for the default coordinates of the code
AstroRequests == {<<<<2024, 4, 15>>, <<31, 35>>>>,
                  <<<<2024, 4, 15>>, <<32, 35>>>>,
                  <<<<2024, 6, 3>>, <<31, 35>>>>}
\* a malformed date comes with any coordinates
MalformedRequests == {<<s, <<31, 35>>>> : s \in Malformed}
\* the hour of day of the date-times callers other than the date handlers pass
\* (datetime.now()); the handlers pass midnight
NowHour == 20

----------------------------------------------------------------------------
(* datetime *)

IsLeap(y) == (y % 4 = 0 /\ y % 100 # 0) \/ y % 400 = 0

DaysInMonth(y, m) ==
    IF m = 2 THEN (IF IsLeap(y) THEN 29 ELSE 28)
    ELSE IF m \in {4, 6, 9, 11} THEN 30 ELSE 31

RECURSIVE DaysBeforeMonth(_, _)
DaysBeforeMonth(y, m) ==
    IF m <= 1 THEN 0 ELSE DaysBeforeMonth(y, m - 1) + DaysInMonth(y, m - 1)

\* date.toordinal(): 0001-01-01 is day 1
ToOrdinal(y, m, d) ==
    365 * (y - 1) + ((y - 1) \div 4) - ((y - 1) \div 100) + ((y - 1) \div 400)
    + DaysBeforeMonth(y, m) + d

\* a parse that checks the month and not the day of the month
StrptimeOkMonthOnly(s) ==
    /\ s[1] \in 1..9999
    /\ s[2] \in 1..12

\* datetime.strptime(s, "%Y-%m-%d"): ValueError unless month and day exist
StrptimeOk(s) ==
    /\ s[1] \in 1..9999
    /\ s[2] \in 1..12
    /\ s[3] \in 1..DaysInMonth(s[1], s[2])

\* datetime.strptime(s, "%Y-%m-%d"): a naive date-time at midnight
Strptime(s) == [y |-> s[1], m |-> s[2], d |-> s[3], h |-> 0, aware |-> FALSE]

\* datetime(y, m, d): a naive date-time at midnight
Datetime(y, m, d) == [y |-> y, m |-> m, d |-> d, h |-> 0, aware |-> FALSE]

\* date.strftime("%Y-%m-%d"): the calendar date, the hour is dropped
Strftime(dt) == <<dt.y, dt.m, dt.d>>

NextDay(dt) ==
    IF dt.d < DaysInMonth(dt.y, dt.m) THEN [dt EXCEPT !.d = dt.d + 1]
    ELSE IF dt.m < 12 THEN [dt EXCEPT !.m = dt.m + 1, !.d = 1]
    ELSE [dt EXCEPT !.y = dt.y + 1, !.m = 1, !.d = 1]

PrevDay(dt) ==
    IF dt.d > 1 THEN [dt EXCEPT !.d = dt.d - 1]
    ELSE IF dt.m > 1 THEN [dt EXCEPT !.m = dt.m - 1, !.d = DaysInMonth(dt.y, dt.m - 1)]
    ELSE [dt EXCEPT !.y = dt.y - 1, !.m = 12, !.d = 31]

\* date.astimezone(israel_tz) of a naive date-time: it is taken as local time
\* and moved to Israel time; the result is timezone-aware
Astimezone(dt, shift) ==
    LET h == dt.h + shift
        moved == IF h >= 24 THEN [NextDay(dt) EXCEPT !.h = h - 24]
                 ELSE IF h < 0 THEN [PrevDay(dt) EXCEPT !.h = h + 24]
                 ELSE [dt EXCEPT !.h = h]
    IN [moved EXCEPT !.aware = TRUE]

\* a - b of two date-times: TypeError when one is aware and the other naive,
\* else the timedelta, of which the callers read .days (floor of the hours / 24)
DatetimeSub(a, b) ==
    IF a.aware # b.aware
    THEN [ok |-> FALSE, days |-> 0]
    ELSE [ok |-> TRUE,
          days |-> ((ToOrdinal(a.y, a.m, a.d) - ToOrdinal(b.y, b.m, b.d)) * 24
                    + a.h - b.h) \div 24]

TypeErrorMsg == "can't subtract offset-naive and offset-aware datetimes"

----------------------------------------------------------------------------
(* cachetools.TTLCache: a sequence of entries [key, expires, value] in       *)
(* least-recently-used order (the head is evicted first)                      *)

Keys(c) == {c[i].key : i \in 1..Len(c)}

Entries(c) == {c[i] : i \in 1..Len(c)}

Without(c, k) == SelectSeq(c, LAMBDA e : e.key # k)

Entry(c, k) == CHOOSE e \in Entries(c) : e.key = k

\* a membership test that still finds an entry at its expiry instant
ContainsAtExpiry(c, k, t) == \E e \in Entries(c) : e.key = k /\ t <= e.expires

\* key in cache: stored and not expired at time t (cachetools 5: an entry is
\* gone from the instant timer() reaches its expiry); nothing is removed or reordered
Contains(c, k, t) == \E e \in Entries(c) : e.key = k /\ t < e.expires

\* expire(time): drops every entry whose expiry instant has been reached
Expire(c, t) == SelectSeq(c, LAMBDA e : t < e.expires)

\* popitem() until there is room for one more entry: drops the least recently used
RECURSIVE MakeRoom(_)
MakeRoom(c) == IF Len(c) + 1 > MaxSize /\ Len(c) > 0 THEN MakeRoom(Tail(c)) ELSE c

\* a store that never makes room
SetItemNoEviction(c, k, v, t) ==
    Append(Without(Expire(c, t), k), [key |-> k, expires |-> t + TTL, value |-> v])

\* cache[key] = value at time t: expired entries go first, then, for a key that
\* is not stored, least recently used entries until there is room
SetItem(c, k, v, t) ==
    LET live == Expire(c, t)
        kept == IF k \in Keys(live) THEN Without(live, k) ELSE MakeRoom(live)
    IN Append(kept, [key |-> k, expires |-> t + TTL, value |-> v])

\* cache[key] at time t: KeyError when the key is not stored or has expired;
\* a stored key becomes the most recently used one either way
GetItem(c, k, t) ==
    IF k \notin Keys(c)
    THEN [found |-> FALSE, cache |-> c]
    ELSE [found |-> t < Entry(c, k).expires,
          cache |-> Append(Without(c, k), Entry(c, k))]

\* the value cache[key] returns when GetItem finds the key
ValueOf(c, k) == Entry(c, k).value

----------------------------------------------------------------------------
(* HebrewDateCalculator *)

ZodiacSigns == <<"Aries", "Taurus", "Gemini", "Cancer", "Leo", "Virgo", "Libra",
                 "Scorpio", "Sagittarius", "Capricorn", "Aquarius", "Pisces">>

\* _calculate_omer_day(date): the optional day is <<>> (None) or <<n>>
CalculateOmerDay(date) ==
    LET pesach_start == Datetime(date.y, 4, 15)
        diff == DatetimeSub(date, pesach_start)
    IN IF ~diff.ok THEN [ok |-> FALSE, value |-> <<>>]
       ELSE [ok |-> TRUE,
             value |-> IF 0 <= diff.days /\ diff.days < 49
                       THEN <<diff.days + 1>> ELSE <<>>]

\* _get_zodiac(date)
GetZodiac(date) ==
    LET diff == DatetimeSub(date, Datetime(1, 1, 1))
        jd == diff.days + 1721425
    IN IF ~diff.ok THEN [ok |-> FALSE, value |-> ""]
       ELSE [ok |-> TRUE, value |-> ZodiacSigns[((jd - 1) % 12) + 1]]

\* what the hebrewcal calls of one get_hebrew_date do: raise, or return with
\* the holiday flag of the day
HebrewLib == {[ok |-> FALSE, holiday |-> FALSE],
              [ok |-> TRUE, holiday |-> FALSE],
              [ok |-> TRUE, holiday |-> TRUE]}

\* an attribute of HebrewDate.from_gregorian(date.year, date.month, date.day):
\* whatever hebrewcal gives for that day
HebrewAttr(date, name) == <<name, date.y, date.m, date.d>>

\* the try block of get_hebrew_date
HebrewCompute(date0, shift, lib) ==
    LET date == Astimezone(date0, shift)
        omer_day == CalculateOmerDay(date)
        zodiac == GetZodiac(date)
    IN IF ~lib.ok THEN [ok |-> FALSE, val |-> [error |-> "hebrewcal failed"]]
       ELSE IF ~omer_day.ok THEN [ok |-> FALSE, val |-> [error |-> TypeErrorMsg]]
       ELSE IF ~zodiac.ok THEN [ok |-> FALSE, val |-> [error |-> TypeErrorMsg]]
       ELSE [ok |-> TRUE,
             val |-> [gregorian_date |-> Strftime(date),
                      hebrew_day |-> HebrewAttr(date, "day"),
                      hebrew_month |-> HebrewAttr(date, "month"),
                      hebrew_year |-> HebrewAttr(date, "year"),
                      hebrew_month_name |-> HebrewAttr(date, "month_name"),
                      hebrew_year_name |-> HebrewAttr(date, "year_name"),
                      is_holiday |-> lib.holiday,
                      omer_day |-> omer_day.value,
                      zodiac_sign |-> zodiac.value,
                      day_of_week |-> HebrewAttr(date, "day_of_week"),
                      parsha |-> HebrewAttr(date, "parsha")]]

\* get_hebrew_date(date): the membership test reads the clock at t1, the read
\* or the store that follows reads it at t2 >= t1
get_hebrew_date(c, date, shift, t1, t2, lib) ==
    LET cache_key == Strftime(date)
    IN IF Contains(c, cache_key, t1)
       THEN LET got == GetItem(c, cache_key, t2)
            IN IF got.found
               THEN [path |-> "hit", val |-> ValueOf(c, cache_key), cache |-> got.cache]
               ELSE [path |-> "raised", val |-> [raised |-> "KeyError"], cache |-> got.cache]
       ELSE LET r == HebrewCompute(date, shift, lib)
            IN IF r.ok
               THEN [path |-> "computed", val |-> r.val,
                     cache |-> SetItem(c, cache_key, r.val, t2)]
               ELSE [path |-> "error", val |-> r.val, cache |-> c]

----------------------------------------------------------------------------
(* AstronomyCalculator *)

\* the moon illumination percentages ephem reports are counted in half
\* percents (0..200 is 0%..100%), positions in half units
\* the documented range of the percentage, 0%..100%
PhaseRange == 0..200
\* the positions the helpers are applied to reach this far either side of 0
MaxPosition == 30
\* the percentages handed to the calculator by ephem in the calls of Spec
PhaseInputs == {100, 200}
\* the altitude ephem reports for the moon in the calls of Spec
Altitudes == {-3}

\* int(x) of the quotient num / den: truncation toward zero
IntTrunc(num, den) == IF num >= 0 THEN num \div den ELSE -((-num) \div den)

\* list[i] on a list of n elements: the 1-based position read, 0 for IndexError
ListIndex(n, i) ==
    IF 0 <= i /\ i < n THEN i + 1
    ELSE IF -n <= i /\ i < 0 THEN n + i + 1
    ELSE 0

Phases == <<"New Moon", "Waxing Crescent", "First Quarter", "Waxing Gibbous",
            "Full Moon", "Waning Gibbous", "Last Quarter", "Waning Crescent">>

Mazalot == <<"Aries", "Taurus", "Gemini", "Cancer", "Leo", "Virgo", "Libra",
             "Scorpio", "Sagittarius", "Capricorn", "Aquarius", "Pisces">>

Signs == <<"Aries", "Taurus", "Gemini", "Cancer", "Leo", "Virgo", "Libra",
           "Scorpio", "Sagittarius", "Capricorn", "Aquarius", "Pisces">>

\* phase_index = int((phase / 100) * 8), phase in half percents
PhaseIndex(phase) == IntTrunc(phase * 8, 200)

\* phases[phase_index]: the name, or "IndexError"
PhaseName(phase) ==
    LET at == ListIndex(Len(Phases), PhaseIndex(phase))
    IN IF at = 0 THEN "IndexError" ELSE Phases[at]

\* _calculate_moon_phase(phase): wall is datetime.now() in ticks since the new
\* moon ephem reports, ageOk whether the ephem calls of _calculate_moon_age return
CalculateMoonPhase(phase, ageOk, wall) ==
    IF PhaseName(phase) = "IndexError"
    THEN [ok |-> FALSE, val |-> [error |-> "list index out of range"]]
    ELSE IF ~ageOk
    THEN [ok |-> FALSE, val |-> [error |-> "ephem failed"]]
    ELSE [ok |-> TRUE,
          val |-> [name |-> PhaseName(phase), percentage |-> phase, age |-> wall]]

\* _get_mazal(position): mazalot[int(position) % len(mazalot)], position in half units
GetMazal(position) == Mazalot[(IntTrunc(position, 2) % Len(Mazalot)) + 1]

\* _get_zodiac_sign(position): signs[int(position) % len(signs)]
GetZodiacSign(position) == Signs[(IntTrunc(position, 2) % Len(Signs)) + 1]

\* self.location = LocationInfo("Jerusalem", "Israel"): the call gives a name
\* and a region and no coordinates, so the observer of self.location has the
\* coordinates LocationInfo has by default (astral: Greenwich, 51.47 N 0.00 E)
Location == <<51, 0>>

\* astral.sun.sun(observer, date=date): the instants of dawn, sunrise, sunset
\* and dusk of that day at the observer <<latitude, longitude>>, in minutes
\* after 00:00 UTC.  astral is not part of the repository: the instants below
\* stand for its result, a function of the observer and of the date (solar
\* noon moves 4 minutes per degree of longitude, the day is longer at higher
\* latitudes and toward June, twilight lasts 30 minutes).
Sun(observer, date) ==
    LET noon == 720 - 4 * observer[2]
        toJune == IF date.m <= 6 THEN date.m ELSE 12 - date.m
        half == 360 + (observer[1] * toJune) \div 6
    IN [dawn |-> noon - half - 30, sunrise |-> noon - half,
        sunset |-> noon + half, dusk |-> noon + half + 30]

\* instant.strftime("%H:%M"): the hour and the minute of the day, as <<HH, MM>>
StrftimeHM(instant) == <<(instant \div 60) % 24, instant % 60>>

\* a table whose talit slot is taken from dawn
CalculatePrayerTimesTalitAtDawn(date, latitude, longitude) ==
    LET s == Sun(Location, date)
    IN [alos |-> StrftimeHM(s.dawn),
        sunrise |-> StrftimeHM(s.sunrise),
        talit |-> StrftimeHM(s.dawn),
        shacharit |-> StrftimeHM(s.sunrise),
        mincha_gedola |-> StrftimeHM(s.sunset),
        mincha_ketana |-> StrftimeHM(s.sunset),
        plag_hamincha |-> StrftimeHM(s.sunset),
        sunset |-> StrftimeHM(s.sunset),
        tzeit_hakochavim |-> StrftimeHM(s.dusk)]

\* _calculate_prayer_times(date, latitude, longitude): the sun events are
\* those of self.location.observer; latitude and longitude are not read
CalculatePrayerTimes(date, latitude, longitude) ==
    LET s == Sun(Location, date)
    IN [alos |-> StrftimeHM(s.dawn),
        sunrise |-> StrftimeHM(s.sunrise),
        talit |-> StrftimeHM(s.sunrise),
        shacharit |-> StrftimeHM(s.sunrise),
        mincha_gedola |-> StrftimeHM(s.sunset),
        mincha_ketana |-> StrftimeHM(s.sunset),
        plag_hamincha |-> StrftimeHM(s.sunset),
        sunset |-> StrftimeHM(s.sunset),
        tzeit_hakochavim |-> StrftimeHM(s.dusk)]

\* a check that finds a lunar eclipse on every date
IsLunarEclipseAlways(date) == TRUE

\* _is_lunar_eclipse(date)
IsLunarEclipse(date) == FALSE

\* _is_solar_eclipse(date)
IsSolarEclipse(date) == FALSE

\* _get_astronomical_events(date): the events list, lunar eclipse first
GetAstronomicalEvents(date) ==
    LET lunar == IF IsLunarEclipse(date)
                 THEN <<[type |-> "lunar_eclipse", time |-> <<date.h, 0>>,
                         description |-> "Lunar eclipse visible"]>>
                 ELSE <<>>
        solar == IF IsSolarEclipse(date)
                 THEN <<[type |-> "solar_eclipse", time |-> <<date.h, 0>>,
                         description |-> "Solar eclipse visible"]>>
                 ELSE <<>>
    IN lunar \o solar

\* the try block of get_astronomical_data: libOk says whether the ephem and
\* astral calls return, phase and alt are what ephem reports for the moon
AstroCompute(date0, latitude, longitude, shift, phase, alt, libOk, wall) ==
    LET date == Astimezone(date0, shift)
        moon_phase == CalculateMoonPhase(phase, libOk, wall)
    IN IF ~moon_phase.ok THEN [ok |-> FALSE, val |-> moon_phase.val]
       ELSE [ok |-> TRUE,
             val |-> [date |-> Strftime(date),
                      moon |-> [phase |-> moon_phase.val,
                                position |-> alt,
                                constellation |-> GetMazal(alt)],
                      prayer_times |-> CalculatePrayerTimes(date, latitude, longitude),
                      astronomical_events |-> GetAstronomicalEvents(date)]]

\* get_astronomical_data with the store moved after the try block: what the
\* except branch returns is stored as well
get_astronomical_data_storing_errors(c, date, latitude, longitude, shift, t1, t2, phase, alt, libOk) ==
    LET cache_key == <<Strftime(date), latitude, longitude>>
    IN IF Contains(c, cache_key, t1)
       THEN LET got == GetItem(c, cache_key, t2)
            IN IF got.found
               THEN [path |-> "hit", val |-> ValueOf(c, cache_key), cache |-> got.cache]
               ELSE [path |-> "raised", val |-> [raised |-> "KeyError"], cache |-> got.cache]
       ELSE LET r == AstroCompute(date, latitude, longitude, shift, phase, alt, libOk, t2)
            IN [path |-> IF r.ok THEN "computed" ELSE "error", val |-> r.val,
                cache |-> SetItem(c, cache_key, r.val, t2)]

\* get_astronomical_data(date, latitude, longitude): the membership test reads
\* the clock at t1, the read or the store that follows reads it at t2 >= t1
get_astronomical_data(c, date, latitude, longitude, shift, t1, t2, phase, alt, libOk) ==
    LET cache_key == <<Strftime(date), latitude, longitude>>
    IN IF Contains(c, cache_key, t1)
       THEN LET got == GetItem(c, cache_key, t2)
            IN IF got.found
               THEN [path |-> "hit", val |-> ValueOf(c, cache_key), cache |-> got.cache]
               ELSE [path |-> "raised", val |-> [raised |-> "KeyError"], cache |-> got.cache]
       ELSE LET r == AstroCompute(date, latitude, longitude, shift, phase, alt, libOk, t2)
            IN IF r.ok
               THEN [path |-> "computed", val |-> r.val,
                     cache |-> SetItem(c, cache_key, r.val, t2)]
               ELSE [path |-> "error", val |-> r.val, cache |-> c]

----------------------------------------------------------------------------
(* endpoints/torah.py as a module body, and api.py *)

\* the statements of endpoints/torah.py that bind `router` or register a route on it
TorahModule == <<
    [stmt |-> "bind",  path |-> "",                    handler |-> ""],
    [stmt |-> "route", path |-> "/weekly-parsha",      handler |-> "get_weekly_parsha@12"],
    [stmt |-> "route", path |-> "/astronomy/{date}",   handler |-> "get_astronomy_data@136"],
    [stmt |-> "route", path |-> "/hebrew-date/{date}", handler |-> "get_hebrew_date@147"],
    [stmt |-> "bind",  path |-> "",                    handler |-> ""],
    [stmt |-> "route", path |-> "/weekly-parsha",      handler |-> "get_weekly_parsha@291"],
    [stmt |-> "route", path |-> "/astronomy",          handler |-> "get_astronomy_data@350"] >>

\* router = APIRouter(): a new router object, and the name is bound to it
BindRouter ==
    /\ pc <= Len(TorahModule)
    /\ TorahModule[pc].stmt = "bind"
    /\ routes' = Append(routes, {})
    /\ router' = Len(routes) + 1
    /\ pc' = pc + 1
    /\ UNCHANGED <<apiRoutes, included, tz, now, hcache, acache, ret, pure, sefaria, threads>>

\* @router.get(path): the route goes to the object `router` is bound to now
RegisterRoute ==
    /\ pc <= Len(TorahModule)
    /\ TorahModule[pc].stmt = "route"
    /\ routes' = [routes EXCEPT ![router] =
                      @ \cup {<<TorahModule[pc].path, TorahModule[pc].handler>>}]
    /\ pc' = pc + 1
    /\ UNCHANGED <<router, apiRoutes, included, tz, now, hcache, acache, ret, pure, sefaria, threads>>

\* api_router.include_router(torah.router, prefix="/torah"), after the import
\* of the torah module has run its whole body
IncludeRouter ==
    /\ pc > Len(TorahModule)
    /\ ~included
    /\ apiRoutes' = {<<"/torah", r[1], r[2]>> : r \in routes[router]}
    /\ included' = TRUE
    /\ UNCHANGED <<pc, router, routes, tz, now, hcache, acache, ret, pure, sefaria, threads>>

----------------------------------------------------------------------------
(* The calls *)

InvalidDateMsg == "Invalid date format. Please use YYYY-MM-DD"

NoCall == [op |-> "none", date |-> <<0, 0, 0>>, coords |-> <<0, 0>>,
           entry |-> "absent", full |-> FALSE, path |-> "none",
           val |-> [none |-> TRUE], calls |-> 0]

NoPure == [fn |-> "none", arg |-> 0, libOk |-> TRUE, out |-> "", out12 |-> "",
           aware |-> FALSE, date |-> <<0, 0, 0>>, opt |-> <<>>]

\* sefaria_api after construction: both caches empty, no call made
NoSefaria == [text_cache |-> <<>>, parsha_cache |-> <<>>, fetched |-> {},
              op |-> "none", key |-> <<>>, upstream |-> <<>>, prior |-> FALSE,
              path |-> "none", val |-> [none |-> TRUE], sent |-> 0]

\* the threads that call the astronomy calculator at the same time
Threads == {1, 2}

\* a thread that is in no call
Idle == [at |-> "idle"]

\* what the cache holds for key k at time t, before the call
EntryState(c, k, t) ==
    IF k \notin Keys(c) THEN "absent"
    ELSE IF t < Entry(c, k).expires THEN "live" ELSE "expired"

\* the record of a call that reached a calculator
Called(op, s, co, c, k, o) ==
    [op |-> op, date |-> s, coords |-> co,
     entry |-> EntryState(c, k, now), full |-> Len(c) = MaxSize,
     path |-> o.path, val |-> o.val, calls |-> 1]

\* hebrew_date_calculator.get_hebrew_date(datetime.now()-like date-time of day s)
CallGetHebrewDate ==
    /\ included
    /\ \E s \in WellFormed, dt \in {0, 1}, lib \in HebrewLib :
         /\ now + dt <= MaxClock
         /\ LET date == [Strptime(s) EXCEPT !.h = NowHour]
                o == get_hebrew_date(hcache, date, tz, now, now + dt, lib)
            IN /\ hcache' = o.cache
               /\ ret' = Called("get_hebrew_date", s, <<0, 0>>, hcache, s, o)
         /\ now' = now + dt
    /\ UNCHANGED <<pc, router, routes, apiRoutes, included, tz, acache, pure, sefaria, threads>>

\* astronomy_calculator.get_astronomical_data(date, latitude, longitude)
CallGetAstronomicalData ==
    /\ included
    /\ \E rq \in AstroRequests, dt \in {0, 1},
          phase \in PhaseInputs, alt \in Altitudes, libOk \in BOOLEAN :
         /\ now + dt <= MaxClock
         /\ LET s == rq[1]
                co == rq[2]
                date == [Strptime(s) EXCEPT !.h = NowHour]
                o == get_astronomical_data(acache, date, co[1], co[2], tz,
                                           now, now + dt, phase, alt, libOk)
            IN /\ acache' = o.cache
               /\ ret' = Called("get_astronomical_data", s, co, acache,
                                <<s, co[1], co[2]>>, o)
         /\ now' = now + dt
    /\ UNCHANGED <<pc, router, routes, apiRoutes, included, tz, hcache, pure, sefaria, threads>>

\* the handler of /hebrew-date/{date} (torah.py, first router)
TorahGetHebrewDate ==
    /\ included
    /\ \E s \in DateStrings :
         IF StrptimeOk(s)
         THEN \E dt \in {0, 1}, lib \in HebrewLib :
                /\ now + dt <= MaxClock
                /\ LET date_obj == Strptime(s)
                       o == get_hebrew_date(hcache, date_obj, tz, now, now + dt, lib)
                   IN /\ hcache' = o.cache
                      /\ ret' = Called("torah.get_hebrew_date", s, <<0, 0>>, hcache, s, o)
                /\ now' = now + dt
         ELSE /\ ret' = [NoCall EXCEPT !.op = "torah.get_hebrew_date", !.date = s,
                                       !.path = "invalid",
                                       !.val = [error |-> InvalidDateMsg]]
              /\ UNCHANGED <<hcache, now>>
    /\ UNCHANGED <<pc, router, routes, apiRoutes, included, tz, acache, pure, sefaria, threads>>

\* the handler of /astronomy/{date} (torah.py, first router)
TorahGetAstronomyData ==
    /\ included
    /\ \E rq \in AstroRequests \cup MalformedRequests :
         LET s == rq[1]
             co == rq[2]
         IN IF StrptimeOk(s)
            THEN \E dt \in {0, 1}, phase \in PhaseInputs, alt \in Altitudes,
                    libOk \in BOOLEAN :
                   /\ now + dt <= MaxClock
                   /\ LET date_obj == Strptime(s)
                          o == get_astronomical_data(acache, date_obj, co[1], co[2], tz,
                                                     now, now + dt, phase, alt, libOk)
                      IN /\ acache' = o.cache
                         /\ ret' = Called("torah.get_astronomy_data", s, co, acache,
                                          <<s, co[1], co[2]>>, o)
                   /\ now' = now + dt
            ELSE /\ ret' = [NoCall EXCEPT !.op = "torah.get_astronomy_data",
                                          !.date = s, !.coords = co,
                                          !.path = "invalid",
                                          !.val = [error |-> InvalidDateMsg]]
                 /\ UNCHANGED <<acache, now>>
    /\ UNCHANGED <<pc, router, routes, apiRoutes, included, tz, hcache, pure, sefaria, threads>>

\* time passes between two calls
Tick ==
    /\ now < MaxClock
    /\ now' = now + 1
    /\ UNCHANGED <<pc, router, routes, apiRoutes, included, tz, hcache, acache, ret, pure, sefaria, threads>>

Init ==
    /\ pc = 1
    /\ router = 0
    /\ routes = <<>>
    /\ apiRoutes = {}
    /\ included = FALSE
    /\ tz \in Shifts
    /\ now = 0
    /\ hcache = <<>>
    /\ acache = <<>>
    /\ ret = NoCall
    /\ pure = NoPure
    /\ sefaria = NoSefaria
    /\ threads = [t \in Threads |-> Idle]

Next ==
    \/ BindRouter
    \/ RegisterRoute
    \/ IncludeRouter
    \/ CallGetHebrewDate
    \/ CallGetAstronomicalData
    \/ TorahGetHebrewDate
    \/ TorahGetAstronomyData
    \/ Tick

Spec == Init /\ [][Next]_vars

----------------------------------------------------------------------------
(* The helpers of AstronomyCalculator applied to one argument each *)

PureArgs == (-MaxPosition..MaxPosition) \cup PhaseRange

\* _calculate_moon_phase(arg): out is the phase name, or "raised"
ApplyCalculateMoonPhase ==
    /\ pure.fn = "none"
    /\ \E libOk \in BOOLEAN :
         LET r == CalculateMoonPhase(pure.arg, libOk, now)
         IN pure' = [pure EXCEPT !.fn = "_calculate_moon_phase", !.libOk = libOk,
                                 !.out = IF r.ok THEN r.val.name ELSE "raised"]
    /\ UNCHANGED <<pc, router, routes, apiRoutes, included, tz, now, hcache, acache, ret, sefaria, threads>>

\* _get_mazal(arg) and _get_mazal(arg + 12)
ApplyGetMazal ==
    /\ pure.fn = "none"
    /\ pure' = [pure EXCEPT !.fn = "_get_mazal", !.out = GetMazal(pure.arg),
                            !.out12 = GetMazal(pure.arg + 24)]
    /\ UNCHANGED <<pc, router, routes, apiRoutes, included, tz, now, hcache, acache, ret, sefaria, threads>>

\* _get_zodiac_sign(arg) and _get_zodiac_sign(arg + 12)
ApplyGetZodiacSign ==
    /\ pure.fn = "none"
    /\ pure' = [pure EXCEPT !.fn = "_get_zodiac_sign", !.out = GetZodiacSign(pure.arg),
                            !.out12 = GetZodiacSign(pure.arg + 24)]
    /\ UNCHANGED <<pc, router, routes, apiRoutes, included, tz, now, hcache, acache, ret, sefaria, threads>>

\* date + timedelta(days=n), for less than a year either way: the date whose
\* ordinal is n more (date.fromordinal(date.toordinal() + n)), same time of day
AddDays(dt, n) ==
    LET target == ToOrdinal(dt.y, dt.m, dt.d) + n
        y == IF target < ToOrdinal(dt.y, 1, 1) THEN dt.y - 1
             ELSE IF target > ToOrdinal(dt.y, 12, 31) THEN dt.y + 1
             ELSE dt.y
        m == CHOOSE k \in 1..12 :
                 /\ ToOrdinal(y, k, 1) <= target
                 /\ target <= ToOrdinal(y, k, DaysInMonth(y, k))
    IN [dt EXCEPT !.y = y, !.m = m, !.d = target - ToOrdinal(y, m, 1) + 1]

\* the day offsets from 2024-04-15 the date helpers are applied to: from a
\* month before it to past the end of the 49 days that follow it
DayOffsets == (-MaxPosition)..(2 * MaxPosition)

\* the date-time arg days after 2024-04-15, at NowHour: naive, or as
\* get_hebrew_date passes it on after line 28 (moved to Israel time, aware)
PureDate(arg, aware) ==
    LET naive == [AddDays(Datetime(2024, 4, 15), arg) EXCEPT !.h = NowHour]
    IN IF aware THEN Astimezone(naive, tz) ELSE naive

\* _calculate_omer_day(date): out tells whether it returned, opt is the
\* optional day it returned
ApplyCalculateOmerDay ==
    /\ pure.fn = "none"
    /\ pure.arg \in DayOffsets
    /\ \E aware \in BOOLEAN :
         LET date == PureDate(pure.arg, aware)
             r == CalculateOmerDay(date)
         IN pure' = [pure EXCEPT !.fn = "_calculate_omer_day", !.aware = aware,
                                 !.date = Strftime(date),
                                 !.out = IF r.ok THEN "returned" ELSE "raised",
                                 !.opt = r.value]
    /\ UNCHANGED <<pc, router, routes, apiRoutes, included, tz, now, hcache, acache, ret, sefaria, threads>>

\* _get_zodiac(date) and _get_zodiac(date + 12 days): out and out12 are the
\* signs, or "raised"
ApplyGetZodiac ==
    /\ pure.fn = "none"
    /\ pure.arg \in DayOffsets
    /\ \E aware \in BOOLEAN :
         LET date == PureDate(pure.arg, aware)
             r == GetZodiac(date)
             r12 == GetZodiac(AddDays(date, 12))
         IN pure' = [pure EXCEPT !.fn = "_get_zodiac", !.aware = aware,
                                 !.date = Strftime(date),
                                 !.out = IF r.ok THEN r.value ELSE "raised",
                                 !.out12 = IF r12.ok THEN r12.value ELSE "raised"]
    /\ UNCHANGED <<pc, router, routes, apiRoutes, included, tz, now, hcache, acache, ret, sefaria, threads>>

InitPure ==
    /\ pc = 1
    /\ router = 0
    /\ routes = <<>>
    /\ apiRoutes = {}
    /\ included = FALSE
    /\ tz \in Shifts
    /\ now = 0
    /\ hcache = <<>>
    /\ acache = <<>>
    /\ ret = NoCall
    /\ pure \in {[NoPure EXCEPT !.arg = a] : a \in PureArgs}
    /\ sefaria = NoSefaria
    /\ threads = [t \in Threads |-> Idle]

NextPure ==
    \/ ApplyCalculateMoonPhase
    \/ ApplyGetMazal
    \/ ApplyGetZodiacSign
    \/ ApplyCalculateOmerDay
    \/ ApplyGetZodiac

SpecPure == InitPure /\ [][NextPure]_vars

----------------------------------------------------------------------------
(* endpoints/prayer.py, and _calculate_prayer_times applied on its own *)

\* the latitude and longitude query parameters of the prayer endpoints
Coordinates == {<<31, 35>>, <<32, 35>>, <<51, 0>>, <<40, -74>>}

\* the optional date query parameter: <<>> when the request has none
DateParams == DateStrings \cup {<<>>}

\* lines 14-17 of both prayer handlers: the date-time the handler works with;
\* strptime is called outside any try block, its ValueError leaves the handler
PrayerDate(dateParam, today) ==
    IF dateParam = <<>>
    THEN [ok |-> TRUE, date |-> [Strptime(today) EXCEPT !.h = NowHour]]
    ELSE IF ~StrptimeOk(dateParam)
    THEN [ok |-> FALSE, date |-> Datetime(1, 1, 1)]
    ELSE [ok |-> TRUE, date |-> Strptime(dateParam)]

\* get_daily_prayer_schedule(latitude, longitude, date): today is the day of
\* datetime.now(), sunOk whether astral's sun() returns
get_daily_prayer_schedule(latitude, longitude, dateParam, today, sunOk) ==
    LET parsed == PrayerDate(dateParam, today)
        date == parsed.date
        s == Sun(<<latitude, longitude>>, date)
    IN IF ~parsed.ok THEN [path |-> "raised", val |-> [raised |-> "ValueError"]]
       ELSE IF ~sunOk THEN [path |-> "raised", val |-> [raised |-> "astral"]]
       ELSE [path |-> "returned",
             val |-> [date |-> Strftime(date),
                      prayer_times |->
                          [alos |-> StrftimeHM(s.dawn),
                           sunrise |-> StrftimeHM(s.sunrise),
                           talit |-> StrftimeHM(s.sunrise),
                           shacharit |-> StrftimeHM(s.sunrise),
                           mincha_gedola |-> StrftimeHM(s.sunset),
                           mincha_ketana |-> StrftimeHM(s.sunset),
                           plag_hamincha |-> StrftimeHM(s.sunset),
                           sunset |-> StrftimeHM(s.sunset),
                           tzeit_hakochavim |-> StrftimeHM(s.dusk)]]]

\* get_tefillin_schedule(latitude, longitude, date)
get_tefillin_schedule(latitude, longitude, dateParam, today) ==
    LET parsed == PrayerDate(dateParam, today)
    IN IF ~parsed.ok THEN [path |-> "raised", val |-> [raised |-> "ValueError"]]
       ELSE [path |-> "returned",
             val |-> [date |-> Strftime(parsed.date),
                      tefillin_allowed |-> TRUE,
                      start_time |-> <<7, 0>>,
                      end_time |-> <<13, 0>>]]

\* the record of a call that uses no cache
Answered(op, dateParam, co, o) ==
    [NoCall EXCEPT !.op = op, !.date = dateParam, !.coords = co,
                   !.path = o.path, !.val = o.val]

\* the handler of /prayer/daily-schedule
PrayerGetDailySchedule ==
    /\ \E co \in Coordinates, dateParam \in DateParams, today \in WellFormed,
          sunOk \in BOOLEAN :
         ret' = Answered("prayer.get_daily_prayer_schedule", dateParam, co,
                         get_daily_prayer_schedule(co[1], co[2], dateParam, today, sunOk))
    /\ UNCHANGED <<pc, router, routes, apiRoutes, included, tz, now, hcache, acache, pure, sefaria, threads>>

\* the handler of /prayer/tefillin
PrayerGetTefillin ==
    /\ \E co \in Coordinates, dateParam \in DateParams, today \in WellFormed :
         ret' = Answered("prayer.get_tefillin_schedule", dateParam, co,
                         get_tefillin_schedule(co[1], co[2], dateParam, today))
    /\ UNCHANGED <<pc, router, routes, apiRoutes, included, tz, now, hcache, acache, pure, sefaria, threads>>

\* astronomy_calculator._calculate_prayer_times(date, latitude, longitude) on
\* the date-time get_astronomical_data has moved to Israel time; sunOk whether
\* astral's sun() returns (its exception leaves the method)
ApplyCalculatePrayerTimes ==
    /\ \E co \in Coordinates, s \in WellFormed, h \in {0, NowHour}, sunOk \in BOOLEAN :
         LET date == Astimezone([Strptime(s) EXCEPT !.h = h], tz)
         IN ret' = Answered("_calculate_prayer_times", Strftime(date), co,
                            IF sunOk
                            THEN [path |-> "returned",
                                  val |-> [prayer_times |->
                                               CalculatePrayerTimes(date, co[1], co[2])]]
                            ELSE [path |-> "raised", val |-> [raised |-> "astral"]])
    /\ UNCHANGED <<pc, router, routes, apiRoutes, included, tz, now, hcache, acache, pure, sefaria, threads>>

NextPrayer ==
    \/ PrayerGetDailySchedule
    \/ PrayerGetTefillin
    \/ ApplyCalculatePrayerTimes

SpecPrayer == Init /\ [][NextPrayer]_vars

----------------------------------------------------------------------------
(* SefariaAPI (utils/sefaria.py) *)

\* the def statements of the class body that define get_text or get_parsha,
\* in the order the class body runs them
SefariaClassBody == <<
    [name |-> "get_text",   line |-> 23, caching |-> TRUE],
    [name |-> "get_parsha", line |-> 48, caching |-> TRUE],
    [name |-> "get_text",   line |-> 71, caching |-> FALSE],
    [name |-> "get_parsha", line |-> 89, caching |-> FALSE] >>

\* the function a method name is bound to once the class body has run: a def
\* rebinds the name, so it is the last def of that name
Bound(name) ==
    LET at == {i \in 1..Len(SefariaClassBody) : SefariaClassBody[i].name = name}
        last == CHOOSE i \in at : \A j \in at : j <= i
    IN SefariaClassBody[last]

DefaultVersion == "English - Metsudah Linear Bible"
Versions == {DefaultVersion, "Hebrew - Tanach with Nikkud"}

\* the references get_text is called with by other modules; a reference is
\* the sequence of the parts its f-string joins
Refs == {<<"Genesis.1">>}

\* what one requests.get + raise_for_status + response.json() does: the JSON
\* body, a network failure (ConnectionError, Timeout) or an HTTP error status
\* (HTTPError); both failures are requests.RequestException
Outcomes == {"ok", "network", "http"}

\* one request to the remote repository
Request(url, params, outcome) ==
    IF outcome = "ok"
    THEN [ok |-> TRUE, val |-> [url |-> url, params |-> params]]
    ELSE [ok |-> FALSE, val |-> [error |-> outcome]]

\* a get_text that sends the request a second time when the first one fails
get_text_retrying(c, ref, version, t1, t2, outcome) ==
    LET r == Request("/texts", <<ref, version>>, outcome)
    IN [path |-> "returned", val |-> r.val,
        sent |-> IF r.ok THEN 1 ELSE 2, cache |-> c]

\* get_text(ref, version) of line 71: one request, an error-shaped value when
\* it fails; text_cache is not read and not written
get_text(c, ref, version, t1, t2, outcome) ==
    LET r == Request("/texts", <<ref, version>>, outcome)
    IN [path |-> "returned", val |-> r.val, sent |-> 1, cache |-> c]

\* get_text(ref, version) of line 23 ("with caching"), the body under its
\* lru_cache decorator: membership test at t1, read or store at t2
get_text_with_caching(c, ref, version, t1, t2, outcome) ==
    LET cache_key == <<ref, version>>
    IN IF Contains(c, cache_key, t1)
       THEN LET got == GetItem(c, cache_key, t2)
            IN IF got.found
               THEN [path |-> "returned", val |-> ValueOf(c, cache_key),
                     sent |-> 0, cache |-> got.cache]
               ELSE [path |-> "raised", val |-> [raised |-> "KeyError"],
                     sent |-> 0, cache |-> got.cache]
       ELSE LET r == Request("/texts", <<ref, version>>, outcome)
            IN [path |-> "returned", val |-> r.val, sent |-> 1,
                cache |-> IF r.ok THEN SetItem(c, cache_key, r.val, t2) ELSE c]

\* self.get_text(ref, version): the call goes to the function the name is bound to
CallGetText(c, ref, version, t1, t2, outcome) ==
    IF Bound("get_text").caching
    THEN get_text_with_caching(c, ref, version, t1, t2, outcome)
    ELSE get_text(c, ref, version, t1, t2, outcome)

\* get_parsha(date) of line 89: one request, parsha_cache is not used
get_parsha(c, date, t1, t2, outcome) ==
    LET r == Request("/calendar", <<Strftime(date), "parsha">>, outcome)
    IN [path |-> "returned", val |-> r.val, sent |-> 1, cache |-> c]

\* get_parsha(date) of line 48 ("with caching"), the body under its lru_cache
\* decorator
get_parsha_with_caching(c, date, t1, t2, outcome) ==
    LET cache_key == Strftime(date)
    IN IF Contains(c, cache_key, t1)
       THEN LET got == GetItem(c, cache_key, t2)
            IN IF got.found
               THEN [path |-> "returned", val |-> ValueOf(c, cache_key),
                     sent |-> 0, cache |-> got.cache]
               ELSE [path |-> "raised", val |-> [raised |-> "KeyError"],
                     sent |-> 0, cache |-> got.cache]
       ELSE LET r == Request("/calendar", <<Strftime(date), "parsha">>, outcome)
            IN [path |-> "returned", val |-> r.val, sent |-> 1,
                cache |-> IF r.ok THEN SetItem(c, cache_key, r.val, t2) ELSE c]

\* self.get_parsha(date)
CallGetParsha(c, date, t1, t2, outcome) ==
    IF Bound("get_parsha").caching
    THEN get_parsha_with_caching(c, date, t1, t2, outcome)
    ELSE get_parsha(c, date, t1, t2, outcome)

KabbalisticSources == <<"Zohar", "Tanya", "Baal Shem Tov", "Ari">>
ChassidicSources == <<"Chabad.org", "Tanya", "Chassidic Insights">>

\* source.lower()
Lower(source) ==
    CASE source = "Zohar" -> "zohar"
      [] source = "Tanya" -> "tanya"
      [] source = "Baal Shem Tov" -> "baal shem tov"
      [] source = "Ari" -> "ari"
      [] source = "Chabad.org" -> "chabad.org"
      [] source = "Chassidic Insights" -> "chassidic insights"

\* the loop `for source in sources: texts[source.lower()] = self.get_text(
\* f"{source}.{ref}")` from position i on: the dict built so far is texts, the
\* i-th request has the outcome outcomes[i]
RECURSIVE Collect(_, _, _, _, _, _, _)
Collect(sources, i, ref, outcomes, t, c, texts) ==
    IF i > Len(sources)
    THEN [path |-> "returned", val |-> texts, sent |-> 0, cache |-> c]
    ELSE LET one == CallGetText(c, <<sources[i], ".">> \o ref, DefaultVersion,
                                t, t, outcomes[i])
             key == Lower(sources[i])
             more == [k \in DOMAIN texts \cup {key} |->
                         IF k = key THEN one.val ELSE texts[k]]
         IN IF one.path = "raised"
            THEN [one EXCEPT !.sent = one.sent]
            ELSE LET rest == Collect(sources, i + 1, ref, outcomes, t, one.cache, more)
                 IN [rest EXCEPT !.sent = rest.sent + one.sent]

\* the empty dict
EmptyDict == [k \in {} |-> 0]

\* get_kabbalistic_texts(ref)
get_kabbalistic_texts(c, ref, outcomes, t) ==
    Collect(KabbalisticSources, 1, ref, outcomes, t, c, EmptyDict)

\* get_chassidic_texts(ref)
get_chassidic_texts(c, ref, outcomes, t) ==
    Collect(ChassidicSources, 1, ref, outcomes, t, c, EmptyDict)

\* get_related_texts(ref): the five members are evaluated in the order of the
\* dict display; outcomes are those of the ten requests in that order
get_related_texts(c, ref, outcomes, t) ==
    LET rashi == CallGetText(c, <<"Rashi on ">> \o ref, DefaultVersion, t, t, outcomes[1])
        midrash == CallGetText(rashi.cache, <<"Midrash Rabbah.">> \o ref, DefaultVersion,
                               t, t, outcomes[2])
        gemara == CallGetText(midrash.cache, <<"Gemara.">> \o ref, DefaultVersion,
                              t, t, outcomes[3])
        kabbalistic == get_kabbalistic_texts(gemara.cache, ref,
                                             SubSeq(outcomes, 4, 7), t)
        chassidic == get_chassidic_texts(kabbalistic.cache, ref,
                                         SubSeq(outcomes, 8, 10), t)
        parts == <<rashi, midrash, gemara, kabbalistic, chassidic>>
    IN IF \E i \in 1..5 : parts[i].path = "raised"
       THEN [path |-> "raised", val |-> [raised |-> "KeyError"],
             sent |-> 0, cache |-> c]
       ELSE [path |-> "returned",
             val |-> [rashi |-> rashi.val, midrash |-> midrash.val,
                      gemara |-> gemara.val, kabbalistic |-> kabbalistic.val,
                      chassidic |-> chassidic.val],
             sent |-> rashi.sent + midrash.sent + gemara.sent
                      + kabbalistic.sent + chassidic.sent,
             cache |-> chassidic.cache]

\* the outcomes of the n requests of one aggregator call: all succeed, all
\* fail, or every second one fails
OutcomePatterns(n) ==
    { [i \in 1..n |-> "ok"], [i \in 1..n |-> "network"],
      [i \in 1..n |-> IF i % 2 = 0 THEN "http" ELSE "ok"],
      [i \in 1..n |-> IF i % 2 = 1 THEN "network" ELSE "ok"] }

\* the keys and instants of the direct get_text / get_parsha calls that
\* returned the remote result, with a later success of a key replacing the earlier
Fetched(fetched, key, t) == {f \in fetched : f[1] # key} \cup {<<key, t>>}

\* a direct call for key was answered with the remote result less than TTL ago
FetchedWithinTTL(fetched, key, t) == \E f \in fetched : f[1] = key /\ t - f[2] < TTL

\* the record of a SefariaAPI call
SefariaCalled(op, key, upstream, o, text_cache, parsha_cache, fetched) ==
    [text_cache |-> text_cache, parsha_cache |-> parsha_cache, fetched |-> fetched,
     op |-> op, key |-> key, upstream |-> upstream,
     prior |-> FetchedWithinTTL(sefaria.fetched, key, now),
     path |-> o.path, val |-> o.val, sent |-> o.sent]

\* sefaria_api.get_text(ref, version)
SefariaGetText ==
    /\ \E ref \in Refs, version \in Versions, outcome \in Outcomes, dt \in {0, 1} :
         /\ now + dt <= MaxClock
         /\ LET o == CallGetText(sefaria.text_cache, ref, version, now, now + dt, outcome)
                key == <<ref, version>>
            IN sefaria' = SefariaCalled("get_text", key, <<outcome>>, o,
                              o.cache, sefaria.parsha_cache,
                              IF outcome = "ok" /\ o.path = "returned"
                              THEN Fetched(sefaria.fetched, key, now + dt)
                              ELSE sefaria.fetched)
         /\ now' = now + dt
    /\ UNCHANGED <<pc, router, routes, apiRoutes, included, tz, hcache, acache, ret, pure, threads>>

\* the days get_parsha is asked about
ParshaDays == {<<2024, 4, 15>>, <<2024, 6, 3>>}

\* sefaria_api.get_parsha(date)
SefariaGetParsha ==
    /\ \E s \in ParshaDays, outcome \in Outcomes, dt \in {0, 1} :
         /\ now + dt <= MaxClock
         /\ LET date == [Strptime(s) EXCEPT !.h = NowHour]
                o == CallGetParsha(sefaria.parsha_cache, date, now, now + dt, outcome)
            IN sefaria' = SefariaCalled("get_parsha", s, <<outcome>>, o,
                              sefaria.text_cache, o.cache,
                              IF outcome = "ok" /\ o.path = "returned"
                              THEN Fetched(sefaria.fetched, s, now + dt)
                              ELSE sefaria.fetched)
         /\ now' = now + dt
    /\ UNCHANGED <<pc, router, routes, apiRoutes, included, tz, hcache, acache, ret, pure, threads>>

\* sefaria_api.get_kabbalistic_texts(ref)
SefariaGetKabbalisticTexts ==
    /\ \E ref \in Refs, outcomes \in OutcomePatterns(Len(KabbalisticSources)) :
         LET o == get_kabbalistic_texts(sefaria.text_cache, ref, outcomes, now)
         IN sefaria' = SefariaCalled("get_kabbalistic_texts", ref, outcomes, o,
                           o.cache, sefaria.parsha_cache, sefaria.fetched)
    /\ UNCHANGED <<pc, router, routes, apiRoutes, included, tz, now, hcache, acache, ret, pure, threads>>

\* sefaria_api.get_chassidic_texts(ref)
SefariaGetChassidicTexts ==
    /\ \E ref \in Refs, outcomes \in OutcomePatterns(Len(ChassidicSources)) :
         LET o == get_chassidic_texts(sefaria.text_cache, ref, outcomes, now)
         IN sefaria' = SefariaCalled("get_chassidic_texts", ref, outcomes, o,
                           o.cache, sefaria.parsha_cache, sefaria.fetched)
    /\ UNCHANGED <<pc, router, routes, apiRoutes, included, tz, now, hcache, acache, ret, pure, threads>>

\* sefaria_api.get_related_texts(ref)
SefariaGetRelatedTexts ==
    /\ \E ref \in Refs,
          outcomes \in OutcomePatterns(3 + Len(KabbalisticSources) + Len(ChassidicSources)) :
         LET o == get_related_texts(sefaria.text_cache, ref, outcomes, now)
         IN sefaria' = SefariaCalled("get_related_texts", ref, outcomes, o,
                           o.cache, sefaria.parsha_cache, sefaria.fetched)
    /\ UNCHANGED <<pc, router, routes, apiRoutes, included, tz, now, hcache, acache, ret, pure, threads>>

NextSefaria ==
    \/ SefariaGetText
    \/ SefariaGetParsha
    \/ SefariaGetKabbalisticTexts
    \/ SefariaGetChassidicTexts
    \/ SefariaGetRelatedTexts
    \/ Tick

SpecSefaria == Init /\ [][NextSefaria]_vars

----------------------------------------------------------------------------
(* Concurrent calls on the calculator singletons.  Neither calculator takes  *)
(* a lock: a call is the sequence of its accesses to the shared cache (the   *)
(* membership test, then the read or the computation and the store), and     *)
(* the accesses of different callers interleave.  Each access is taken as    *)
(* one step.                                                                  *)

\* the calls a thread may make: the calculator and the key of the call
ConcRequests ==
    {[op |-> "get_astronomical_data", date |-> rq[1], coords |-> rq[2]] :
         rq \in AstroRequests}
    \cup {[op |-> "get_hebrew_date", date |-> s, coords |-> <<0, 0>>] :
              s \in {<<2024, 4, 15>>}}

\* the cache key of a call
ConcKey(rq) ==
    IF rq.op = "get_hebrew_date" THEN rq.date
    ELSE <<rq.date, rq.coords[1], rq.coords[2]>>

\* the cache a call works on
ConcCache(rq) == IF rq.op = "get_hebrew_date" THEN hcache ELSE acache

\* the record of a call that has returned or raised
Finished(th, path, val) ==
    [op |-> th.rq.op, date |-> th.rq.date, coords |-> th.rq.coords,
     entry |-> th.entry, full |-> FALSE, path |-> path, val |-> val, calls |-> 1]

\* lines 38-39 (22-23): an idle thread enters a call and evaluates
\* `cache_key in self.cache`
ConcTest(t) ==
    /\ included
    /\ threads[t].at = "idle"
    /\ \E rq \in ConcRequests :
         LET c == ConcCache(rq)
             k == ConcKey(rq)
         IN threads' = [threads EXCEPT ![t] =
                [at |-> IF Contains(c, k, now) THEN "read" ELSE "compute",
                 rq |-> rq, entry |-> EntryState(c, k, now)]]
    /\ UNCHANGED <<pc, router, routes, apiRoutes, included, tz, now, hcache, acache, ret, pure, sefaria>>

\* line 40 (24): return self.cache[cache_key], outside the try block
ConcRead(t) ==
    /\ threads[t].at = "read"
    /\ LET th == threads[t]
           k == ConcKey(th.rq)
           got == GetItem(ConcCache(th.rq), k, now)
       IN /\ IF th.rq.op = "get_hebrew_date"
             THEN hcache' = got.cache /\ acache' = acache
             ELSE acache' = got.cache /\ hcache' = hcache
          /\ ret' = IF got.found
                    THEN Finished(th, "hit", ValueOf(ConcCache(th.rq), k))
                    ELSE Finished(th, "raised", [raised |-> "KeyError"])
    /\ threads' = [threads EXCEPT ![t] = Idle]
    /\ UNCHANGED <<pc, router, routes, apiRoutes, included, tz, now, pure, sefaria>>

\* lines 42-88 (26-61): the try block; the computation reads nothing shared,
\* the store of line 84 (57) is its one access to the cache
ConcCompute(t) ==
    /\ threads[t].at = "compute"
    /\ \E phase \in PhaseInputs, alt \in Altitudes, libOk \in BOOLEAN, lib \in HebrewLib :
         LET th == threads[t]
             k == ConcKey(th.rq)
             date == [Strptime(th.rq.date) EXCEPT !.h = NowHour]
             r == IF th.rq.op = "get_hebrew_date"
                  THEN HebrewCompute(date, tz, lib)
                  ELSE AstroCompute(date, th.rq.coords[1], th.rq.coords[2], tz,
                                    phase, alt, libOk, now)
         IN /\ IF ~r.ok
               THEN hcache' = hcache /\ acache' = acache
               ELSE IF th.rq.op = "get_hebrew_date"
               THEN hcache' = SetItem(hcache, k, r.val, now) /\ acache' = acache
               ELSE acache' = SetItem(acache, k, r.val, now) /\ hcache' = hcache
            /\ ret' = Finished(th, IF r.ok THEN "computed" ELSE "error", r.val)
    /\ threads' = [threads EXCEPT ![t] = Idle]
    /\ UNCHANGED <<pc, router, routes, apiRoutes, included, tz, now, pure, sefaria>>

NextConc ==
    \/ BindRouter
    \/ RegisterRoute
    \/ IncludeRouter
    \/ \E t \in Threads : ConcTest(t)
    \/ \E t \in Threads : ConcRead(t)
    \/ \E t \in Threads : ConcCompute(t)

\* the calls overlap within one tick of the clock: no entry expires meanwhile
SpecConc == Init /\ [][NextConc]_vars

----------------------------------------------------------------------------
(* A caller that modifies the dict it was given.  `self.cache[cache_key] =   *)
(* result; return result` and `return self.cache[cache_key]` hand the caller *)
(* the very object the cache holds, so the entry under the call's key and   *)
(* the caller's result are one dict until the next store under that key.    *)

\* what a caller may do to a dict: add a field, remove one, change one
Modifications == {"add", "remove", "change"}

\* the dict v after the modification
Modified(v, how) ==
    CASE how = "add" ->
             [k \in DOMAIN v \cup {"note"} |-> IF k = "note" THEN "mine" ELSE v[k]]
      [] how = "remove" ->
             [k \in DOMAIN v \ {"astronomical_events"} |-> v[k]]
      [] how = "change" ->
             [v EXCEPT !.date = <<0, 0, 0>>]

\* the caller of the last get_astronomical_data modifies the snapshot it got;
\* the cache entry that is the same object changes with it
CallerModifiesResult ==
    /\ ret.op = "get_astronomical_data"
    /\ ret.path \in {"computed", "hit"}
    /\ LET cache_key == <<ret.date, ret.coords[1], ret.coords[2]>>
       IN /\ cache_key \in Keys(acache)
          /\ ValueOf(acache, cache_key) = ret.val
          /\ \E how \in Modifications :
               /\ ret' = [ret EXCEPT !.path = "modified",
                                     !.val = Modified(ret.val, how)]
               /\ acache' = [i \in 1..Len(acache) |->
                                IF acache[i].key = cache_key
                                THEN [acache[i] EXCEPT !.value = Modified(ret.val, how)]
                                ELSE acache[i]]
    /\ UNCHANGED <<pc, router, routes, apiRoutes, included, tz, now, hcache, pure, sefaria, threads>>

NextCaller ==
    \/ BindRouter
    \/ RegisterRoute
    \/ IncludeRouter
    \/ CallGetAstronomicalData
    \/ CallerModifiesResult
    \/ Tick

SpecCaller == Init /\ [][NextCaller]_vars

----------------------------------------------------------------------------
(* The claims *)

HebrewOps == {"get_hebrew_date", "torah.get_hebrew_date"}
AstroOps == {"get_astronomical_data", "torah.get_astronomy_data"}
HandlerOps == {"torah.get_hebrew_date", "torah.get_astronomy_data"}

\* days from April 15 of the year of the date string s to s
OmerOffset(s) == ToOrdinal(s[1], s[2], s[3]) - ToOrdinal(s[1], 4, 15)

\* the cache and the key the last call used
CacheOf(r) == IF r.op \in HebrewOps THEN hcache ELSE acache
KeyOf(r) == IF r.op \in HebrewOps THEN r.date ELSE <<r.date, r.coords[1], r.coords[2]>>

\* C1: whenever get_hebrew_date has returned for a valid civil date d, the
\* result's omer_day is present iff 0 <= d - April 15 of d's year < 49, and
\* then equals that offset + 1; otherwise omer_day is absent.
C1_OmerDayByOffset ==
    (ret.op \in HebrewOps /\ ret.calls = 1 /\ ret.path # "raised") =>
        IF 0 <= OmerOffset(ret.date) /\ OmerOffset(ret.date) < 49
        THEN /\ "omer_day" \in DOMAIN ret.val
             /\ ret.val.omer_day = <<OmerOffset(ret.date) + 1>>
        ELSE \/ "omer_day" \notin DOMAIN ret.val
             \/ ret.val.omer_day = <<>>

\* C2: neither calculator's cache ever holds more than MaxSize entries, and a
\* step that stores a new entry in a cache that holds MaxSize entries removes
\* at least one of the entries it held.
C2_CacheBounded ==
    /\ [](Len(hcache) <= MaxSize /\ Len(acache) <= MaxSize)
    /\ [][/\ (Len(acache) = MaxSize /\ Entries(acache') \ Entries(acache) # {})
               => Entries(acache) \ Entries(acache') # {}
          /\ (Len(hcache) = MaxSize /\ Entries(hcache') \ Entries(hcache) # {})
               => Entries(hcache) \ Entries(hcache') # {}]_vars

\* C2 witness: a result was stored in a cache that was full, and the cache is
\* full afterwards
C2_StoredIntoFullCache ==
    /\ ret.full
    /\ ret.path = "computed"
    /\ Len(CacheOf(ret)) = MaxSize
    /\ KeyOf(ret) \in Keys(CacheOf(ret))

\* C3: a call whose key is stored with age >= TTL at the time of its
\* membership test does not return the stored entry: it runs the computation
\* (and returns its result or its error).
C3_ExpiredEntryIsAbsent ==
    (ret.calls = 1 /\ ret.entry = "expired") => ret.path \in {"computed", "error"}

\* C3 witness: a call found its key stored but expired and computed anew
C3_RecomputedAfterExpiry ==
    /\ ret.calls = 1
    /\ ret.entry = "expired"
    /\ ret.path = "computed"

\* C4: a call made while its key is stored and not expired returns the stored
\* result without running the computation, and the result a call gets from the
\* cache is the one stored under its own key.
C4_LiveEntryIsReturned ==
    /\ (ret.calls = 1 /\ ret.entry = "live") =>
           (ret.path = "hit" /\ ret.val = ValueOf(CacheOf(ret), KeyOf(ret)))
    /\ (ret.calls = 1 /\ ret.path = "hit") =>
           (KeyOf(ret) \in Keys(CacheOf(ret)) /\ ret.val = ValueOf(CacheOf(ret), KeyOf(ret)))

\* C7: a step that ends a handler call on a date string that does not parse
\* returns exactly {error: "Invalid date format..."}, calls no calculator and
\* leaves both caches as they were.
C7_MalformedDateRejected ==
    [][(ret'.op \in HandlerOps /\ ret'.date \in Malformed) =>
           /\ ret'.val = [error |-> InvalidDateMsg]
           /\ ret'.calls = 0
           /\ hcache' = hcache
           /\ acache' = acache]_vars

\* C7 witness: the hebrew-date handler was given "2024-13-40" and answered
\* with the error body while a cache holds an entry
C7_Rejected_2024_13_40 ==
    /\ ret.op = "torah.get_hebrew_date"
    /\ ret.date = <<2024, 13, 40>>
    /\ ret.val = [error |-> InvalidDateMsg]
    /\ acache # <<>>

\* C8: for a well-formed date outside the Omer window the hebrew-date handler
\* returns a normal-shaped body: no error field, the hebrew_day, hebrew_month,
\* hebrew_year, is_holiday and parsha fields, and omer_day null.
C8_NormalBodyOutsideOmer ==
    (/\ ret.op = "torah.get_hebrew_date"
     /\ ret.date \in WellFormed
     /\ ~(0 <= OmerOffset(ret.date) /\ OmerOffset(ret.date) < 49)
     /\ ret.path # "raised") =>
        /\ "error" \notin DOMAIN ret.val
        /\ {"hebrew_day", "hebrew_month", "hebrew_year", "is_holiday", "omer_day",
            "parsha"} \subseteq DOMAIN ret.val
        /\ ret.val.is_holiday \in BOOLEAN
        /\ ret.val.omer_day = <<>>

\* C9: no call of get_hebrew_date or get_astronomical_data raises to its
\* caller: each returns a result or an error-shaped value.
C9_NeverRaises == ret.path # "raised"

\* C10: once api_router has included torah.router under /torah, the paths
\* /torah/astronomy/{date} and /torah/hebrew-date/{date} are registered and
\* dispatch to the handlers that call the calculators.
C10_DateRoutesRegistered ==
    included =>
        /\ <<"/torah", "/astronomy/{date}", "get_astronomy_data@136">> \in apiRoutes
        /\ <<"/torah", "/hebrew-date/{date}", "get_hebrew_date@147">> \in apiRoutes

\* C5: for every percentage in 0%..100% _calculate_moon_phase returns the name
\* of the bin of width 12.5% the percentage falls in (0% gives "New Moon",
\* [50%, 62.5%) gives "Full Moon") and does not fail.
C5_PhaseNameByBin ==
    (pure.fn = "_calculate_moon_phase" /\ pure.libOk /\ pure.arg \in PhaseRange) =>
        /\ pure.out # "raised"
        /\ \E k \in 1..Len(Phases) :
              /\ 25 * (k - 1) <= pure.arg
              /\ pure.arg < 25 * k
              /\ pure.out = Phases[k]
        /\ (pure.arg = 0 => pure.out = "New Moon")
        /\ (pure.arg \in 100..124 => pure.out = "Full Moon")

\* C6: for every position p, negative and fractional ones included, _get_mazal
\* and _get_zodiac_sign return for p + 12 the name they return for p, and that
\* name is the element of the 12-name list at index floor(p) mod 12.
C6_ZodiacPeriodic ==
    (pure.fn \in {"_get_mazal", "_get_zodiac_sign"}) =>
        /\ pure.out12 = pure.out
        /\ pure.out = Mazalot[((pure.arg \div 2) % 12) + 1]

PrayerTableOps == {"_calculate_prayer_times", "prayer.get_daily_prayer_schedule"}
PrayerOps == {"prayer.get_daily_prayer_schedule", "prayer.get_tefillin_schedule"}

Slots == {"alos", "sunrise", "talit", "shacharit", "mincha_gedola", "mincha_ketana",
          "plag_hamincha", "sunset", "tzeit_hakochavim"}

\* the observers a sun computation may be made for, and a day of every month
Observers == Coordinates \cup {Location} \cup {rq[2] : rq \in AstroRequests}
Days == {Datetime(2024, m, 15) : m \in 1..12}

\* the <<HH, MM>> pair hm shows the hour and minute of the instant
ShowsInstant(hm, instant) ==
    /\ hm[1] \in 0..23
    /\ hm[2] \in 0..59
    /\ (hm[1] * 60 + hm[2]) % 1440 = instant % 1440

\* the table t has the nine slots, filled from the sun events s as the slot
\* mapping says
TableOf(t, s) ==
    /\ DOMAIN t = Slots
    /\ ShowsInstant(t.alos, s.dawn)
    /\ ShowsInstant(t.sunrise, s.sunrise)
    /\ t.talit = t.sunrise
    /\ t.shacharit = t.sunrise
    /\ ShowsInstant(t.sunset, s.sunset)
    /\ t.mincha_gedola = t.sunset
    /\ t.mincha_ketana = t.sunset
    /\ t.plag_hamincha = t.sunset
    /\ ShowsInstant(t.tzeit_hakochavim, s.dusk)

\* C11: whenever _calculate_prayer_times or the /prayer/daily-schedule handler
\* has produced a prayer-time table, the table has exactly the nine slots, each
\* an HH:MM time, with alos at dawn, sunrise = talit = shacharit at sunrise,
\* the three mincha slots and sunset at sunset and tzeit_hakochavim at dusk of
\* one sun computation.
C11_NineSlotsFromSunEvents ==
    (ret.op \in PrayerTableOps /\ ret.path = "returned") =>
        \E obs \in Observers, d \in Days : TableOf(ret.val.prayer_times, Sun(obs, d))

\* C11 witness: the daily-schedule handler produced a table for 40 N 74 W in
\* which dawn, sunrise, sunset and dusk are four different times
C11_TableFor_40_m74 ==
    /\ ret.op = "prayer.get_daily_prayer_schedule"
    /\ ret.path = "returned"
    /\ ret.coords = <<40, -74>>
    /\ Cardinality({ret.val.prayer_times[k] : k \in Slots}) = 4

\* C12: every snapshot get_astronomical_data returns, computed or read from
\* the cache, and every snapshot the cache holds has an empty
\* astronomical_events list.
C12_NoEclipseReported ==
    /\ (ret.op \in AstroOps /\ ret.path \in {"computed", "hit"}) =>
           ret.val.astronomical_events = <<>>
    /\ \A e \in Entries(acache) : e.value.astronomical_events = <<>>

\* C12 witness: a snapshot came back from the cache after earlier calls, with
\* an empty events list
C12_CachedSnapshotWithoutEvents ==
    /\ ret.op \in AstroOps
    /\ ret.path = "hit"
    /\ ret.val.astronomical_events = <<>>
    /\ Len(acache) = MaxSize

\* C13: the prayer_times of a snapshot returned for (date, lat, lon) are those
\* of a sun computation made for the observer at (lat, lon).
C13_PrayerTimesOfRequestCoordinates ==
    (ret.op \in AstroOps /\ ret.path \in {"computed", "hit"}) =>
        \E d \in Days : TableOf(ret.val.prayer_times, Sun(ret.coords, d))

\* C16: a prayer handler that is given a date parameter that does not parse
\* answers with the body {error: "Invalid date format. Please use YYYY-MM-DD"}.
C16_PrayerMalformedDateAnswered ==
    (ret.op \in PrayerOps /\ ret.date \in Malformed) =>
        /\ ret.path = "returned"
        /\ ret.val = [error |-> InvalidDateMsg]

\* a value that has the error field and nothing else
ErrorShaped(v) == DOMAIN v = {"error"}

KabbalisticKeys == <<"zohar", "tanya", "baal shem tov", "ari">>
ChassidicKeys == <<"chabad.org", "tanya", "chassidic insights">>

\* the member of m under keys[i] is error-shaped whenever the request made for
\* it (the requests of keys are numbered from first in upstream) failed
FailedMembersErrorShaped(m, keys, upstream, first) ==
    \A i \in 1..Len(keys) :
        upstream[first + i - 1] # "ok" => ErrorShaped(m[keys[i]])

\* the mapping m has exactly the keys of the sequence keys, and its failed
\* members are error-shaped
CompleteMapping(m, keys, upstream, first) ==
    /\ DOMAIN m = {keys[i] : i \in 1..Len(keys)}
    /\ FailedMembersErrorShaped(m, keys, upstream, first)

\* C14: no SefariaAPI call raises; a get_text or get_parsha whose request
\* fails (network or HTTP error) returns exactly {error: message} after one
\* request; the aggregators send one request per member and return a mapping
\* with all their keys, the members of failed requests being error-shaped.
C14_UpstreamFailureIsErrorShaped ==
    /\ sefaria.path # "raised"
    /\ (sefaria.op \in {"get_text", "get_parsha"} /\ sefaria.upstream[1] # "ok") =>
           (ErrorShaped(sefaria.val) /\ sefaria.sent = 1)
    /\ sefaria.op = "get_kabbalistic_texts" =>
           /\ CompleteMapping(sefaria.val, KabbalisticKeys, sefaria.upstream, 1)
           /\ sefaria.sent = 4
    /\ sefaria.op = "get_chassidic_texts" =>
           /\ CompleteMapping(sefaria.val, ChassidicKeys, sefaria.upstream, 1)
           /\ sefaria.sent = 3
    /\ sefaria.op = "get_related_texts" =>
           /\ FailedMembersErrorShaped(sefaria.val, <<"rashi", "midrash", "gemara">>,
                                       sefaria.upstream, 1)
           /\ DOMAIN sefaria.val
                  = {"rashi", "midrash", "gemara", "kabbalistic", "chassidic"}
           /\ CompleteMapping(sefaria.val.kabbalistic, KabbalisticKeys,
                              sefaria.upstream, 4)
           /\ CompleteMapping(sefaria.val.chassidic, ChassidicKeys,
                              sefaria.upstream, 8)
           /\ sefaria.sent = 10

\* C14 witness: get_related_texts returned while the requests for rashi and
\* for the Tanya of the kabbalistic texts failed and the one for midrash succeeded
C14_RelatedTextsPartlyFailed ==
    /\ sefaria.op = "get_related_texts"
    /\ sefaria.upstream[1] # "ok"
    /\ sefaria.upstream[2] = "ok"
    /\ ErrorShaped(sefaria.val.rashi)
    /\ ~ErrorShaped(sefaria.val.midrash)
    /\ ErrorShaped(sefaria.val.kabbalistic.tanya)

\* C19: a get_text (get_parsha) for a key that a get_text (get_parsha) was
\* answered for from the remote repository less than TTL ago returns a result
\* without sending a request.
C19_SecondCallSendsNoRequest ==
    (sefaria.op \in {"get_text", "get_parsha"} /\ sefaria.prior) =>
        /\ sefaria.path = "returned"
        /\ sefaria.sent = 0
        /\ ~ErrorShaped(sefaria.val)

\* C15: whenever _calculate_omer_day has returned for a civil date, the day
\* is present iff the date is at least 1 and less than 49 days after April 15
\* of its year, and a day that is present counts from 1; for April 15 itself
\* no day is present.
C15_OmerDayFromDayAfterPassover ==
    (pure.fn = "_calculate_omer_day" /\ pure.out = "returned") =>
        /\ pure.opt # <<>> <=> (1 <= OmerOffset(pure.date) /\ OmerOffset(pure.date) < 49)
        /\ pure.opt # <<>> => pure.opt[1] >= 1
        /\ pure.date = <<2024, 4, 15>> => pure.opt = <<>>

\* C18: for the date-time get_hebrew_date passes to _get_zodiac (moved to
\* Israel time), _get_zodiac returns the sign at index (jd - 1) mod 12 of the
\* twelve signs, jd = (days since 0001-01-01) + 1721425, and the same sign for
\* the date 12 days later.
C18_ZodiacFromJulianDay ==
    (pure.fn = "_get_zodiac" /\ pure.aware) =>
        LET jd == ToOrdinal(pure.date[1], pure.date[2], pure.date[3]) - 1 + 1721425
        IN /\ pure.out # "raised"
           /\ pure.out = ZodiacSigns[((jd - 1) % 12) + 1]
           /\ pure.out12 = pure.out

SnapshotFields == {"date", "moon", "prayer_times", "astronomical_events"}
HebrewFields == {"gregorian_date", "hebrew_day", "hebrew_month", "hebrew_year",
                 "hebrew_month_name", "hebrew_year_name", "is_holiday", "omer_day",
                 "zodiac_sign", "day_of_week", "parsha"}

\* every key is stored at most once
OneEntryPerKey(c) == Cardinality(Keys(c)) = Len(c)

\* C17: under every interleaving of concurrent calls each call that has ended
\* has returned a complete result (all the fields of its calculator's result)
\* or an error-shaped value, and each cache holds at most MaxSize entries and
\* at most one entry per key.
C17_ConcurrentCallsReturn ==
    /\ ret.calls = 1 =>
           \/ ret.path \in {"hit", "computed"}
              /\ DOMAIN ret.val = (IF ret.op \in HebrewOps THEN HebrewFields
                                   ELSE SnapshotFields)
           \/ ret.path = "error" /\ ErrorShaped(ret.val)
    /\ Len(acache) <= MaxSize /\ OneEntryPerKey(acache)
    /\ Len(hcache) <= MaxSize /\ OneEntryPerKey(hcache)

\* the snapshot v has the content get_astronomical_data computes: its four
\* fields, and a calendar date
AsComputed(v) == DOMAIN v = SnapshotFields /\ v.date[1] > 0

\* C20: whatever a caller does to a result it was given, every snapshot the
\* cache holds keeps the content that was computed, and every snapshot a call
\* reads from the cache has that content.
C20_CachedResultsKeepContent ==
    /\ \A e \in Entries(acache) : AsComputed(e.value)
    /\ (ret.op = "get_astronomical_data" /\ ret.path = "hit") => AsComputed(ret.val)

\* the last call computed a snapshot (it did not read one from the cache)
ComputedSnapshot(r) == r.op \in AstroOps /\ r.calls = 1 /\ r.path = "computed"

\* C21: the moon age of a snapshot depends only on the request's date: when two
\* calls of get_astronomical_data for the same date-time (the same caller gives
\* the same time of day) and coordinates each compute a snapshot, at whatever
\* wall-clock times, the two snapshots carry the same moon age, and are the
\* same snapshot when ephem reports the same moon.
C21_MoonAgeOfRequestDate ==
    [][(ComputedSnapshot(ret) /\ ComputedSnapshot(ret') /\ ret'.op = ret.op
        /\ ret'.date = ret.date /\ ret'.coords = ret.coords) =>
           /\ ret'.val.moon.phase.age = ret.val.moon.phase.age
           /\ (/\ ret'.val.moon.phase.percentage = ret.val.moon.phase.percentage
               /\ ret'.val.moon.position = ret.val.moon.position) =>
                  ret'.val = ret.val]_vars

\* the last call went through a calculator and ended in its except branch
EndedInError(r) == r.calls = 1 /\ r.path = "error"

\* the two calls used the same cache key of the same calculator
SameKey(r1, r2) ==
    /\ (r1.op \in HebrewOps) = (r2.op \in HebrewOps)
    /\ r1.date = r2.date
    /\ r1.coords = r2.coords

\* C22: a calculator call that ends in an error-shaped value returns only the
\* error field and leaves both caches as they were; no cache ever holds an
\* error-shaped value; and the call that follows with the same key computes
\* again (it ends as computed or as an error, never as a read from the cache).
C22_ErrorLeavesCacheUnchanged ==
    /\ [](/\ EndedInError(ret) => ErrorShaped(ret.val)
          /\ \A e \in Entries(acache) \cup Entries(hcache) : ~ErrorShaped(e.value))
    /\ [][/\ EndedInError(ret') => (acache' = acache /\ hcache' = hcache)
          /\ (EndedInError(ret) /\ ret'.calls = 1 /\ SameKey(ret, ret')) =>
                 ret'.path \in {"computed", "error"}]_vars

\* C22 witness: get_astronomical_data ended in an error for a key whose
\* expired entry the cache still holds next to nothing stored by this call
C22_ErrorKeepsExpiredEntry ==
    /\ ret.op \in AstroOps
    /\ EndedInError(ret)
    /\ ErrorShaped(ret.val)
    /\ ret.entry = "expired"
    /\ KeyOf(ret) \in Keys(acache)
    /\ ~ErrorShaped(Entry(acache, KeyOf(ret)).value)

\* C23: every result a calculator cache holds carries the calendar date of the
\* key it is stored under (gregorian_date in the Hebrew cache, date in the
\* astronomy cache), and every result a calculator call returns for the date
\* string D is labelled D, whatever the time of day of the argument and the
\* timezone of the host.
C23_StoredDateIsKeyDate ==
    /\ \A e \in Entries(hcache) : e.value.gregorian_date = e.key
    /\ \A e \in Entries(acache) : e.value.date = e.key[1]
    /\ (ret.op \in AstroOps /\ ret.calls = 1 /\ ret.path \in {"hit", "computed"}) =>
           ret.val.date = ret.date
    /\ (ret.op \in HebrewOps /\ ret.calls = 1 /\ ret.path \in {"hit", "computed"}) =>
           ret.val.gregorian_date = ret.date

====
